---- MODULE Spec2Model ----
(***************************************************************************)
(* cwlogs: the bounded record store (logstore.go), the text formatter      *)
(* (parser.go), the log viewer model (logModel: Update, search, cursor,    *)
(* format toggle, fetches and timers, the rows View draws) and the log     *)
(* group selector (loggroup_selector.go).                                  *)
(*                                                                         *)
(* Text is a sequence of one-character strings.  A logEntry is a record    *)
(* with the four fields of the Go struct.  The logModel, with the store    *)
(* it points to, is one record held in the variable m; every method of     *)
(* the Go code is an operator from a model record to a model record, so a  *)
(* handler is the composition of the calls it makes, in source order.      *)
(*                                                                         *)
(* The fields that only feed the status line of View (statusMessage,       *)
(* lastFormatState, formatStatusMsg) are left out: no method reads them    *)
(* to decide what it does to the store, the cursor or the search state.    *)
(***************************************************************************)
EXTENDS Integers, Sequences, FiniteSets, TLC

VARIABLES
    user,     \* the session's environment: window heights and keys pressed
    m,        \* the logModel (fields of the struct, the store included)
    running,  \* the tea.Program has not been told to quit
    pending,  \* messages of commands Update returned, not yet delivered
    source,   \* fetch results the remote source has still to deliver
    history,  \* every entry handed to logStore.Append, in call order; in the
              \* fetch sessions, every continuation token sent with a request
    last      \* the last call or message processed, with its arguments and result

vars == <<user, m, running, pending, source, history, last>>

(***************************************************************************)
(* Bounds of the model                                                     *)
(***************************************************************************)
MaxCapacity == 3    \* capacities 1..MaxCapacity of the store specifications
MaxAppends == 4     \* Append calls in the store specifications
MaxQueryLen == 1    \* characters typed into the search query
MaxPending == 4     \* commands and messages in flight in the fetch sessions
MaxView == 4        \* records in the view of the rendering sessions
MaxWindowRows == 11 \* rows of the terminal window in the rendering sessions
MaxFilterLen == 2   \* characters typed into the filter of the log group selector

(***************************************************************************)
(* Text                                                                    *)
(***************************************************************************)
ESC == "ESC"        \* the byte \x1b
NL == "NL"          \* the byte \n

Min(a, b) == IF a < b THEN a ELSE b
Max(a, b) == IF a > b THEN a ELSE b
abs(x) == IF x < 0 THEN -x ELSE x

Digits == <<"0", "1", "2", "3", "4", "5", "6", "7", "8", "9">>
IsDigit(c) == \E i \in 1..10 : Digits[i] = c

\* Case folding of the regexp flag (?i), on the letters the model uses.
Fold(c) ==
    CASE c = "G" -> "g" [] c = "E" -> "e" [] c = "T" -> "t" [] c = "H" -> "h"
      [] c = "O" -> "o" [] c = "K" -> "k" [] c = "A" -> "a"
      [] OTHER -> c

\* regexp.Compile("(?i)" + regexp.QuoteMeta(q)).MatchString(target): the
\* quoted pattern is a literal, so the match is a case-insensitive substring.
MatchString(q, target) ==
    \E i \in 0..(Len(target) - Len(q)) :
        \A k \in 1..Len(q) : Fold(target[i + k]) = Fold(q[k])

RECURSIVE TrimLeft(_)
TrimLeft(s) == IF s # <<>> /\ Head(s) \in {" ", NL} THEN TrimLeft(Tail(s)) ELSE s

RECURSIVE TrimRight(_)
TrimRight(s) ==
    IF s # <<>> /\ s[Len(s)] \in {" ", NL}
    THEN TrimRight(SubSeq(s, 1, Len(s) - 1)) ELSE s

TrimSpace(s) == TrimRight(TrimLeft(s))

\* Index just past the run of [0-9;] that starts at i.
RECURSIVE SkipParams(_, _)
SkipParams(s, i) ==
    IF i <= Len(s) /\ (IsDigit(s[i]) \/ s[i] = ";") THEN SkipParams(s, i + 1) ELSE i

\* ansiEscape = \x1b\[[0-9;]*m ; stripANSI replaces every match by "".
RECURSIVE stripFrom(_, _)
stripFrom(s, i) ==
    IF i > Len(s) THEN <<>>
    ELSE IF s[i] = ESC /\ i + 1 <= Len(s) /\ s[i + 1] = "["
         THEN LET j == SkipParams(s, i + 2) IN
              IF j <= Len(s) /\ s[j] = "m"
              THEN stripFrom(s, j + 1)
              ELSE <<s[i]>> \o stripFrom(s, i + 1)
         ELSE <<s[i]>> \o stripFrom(s, i + 1)

stripANSI(s) == stripFrom(s, 1)

\* lipgloss Style.Render on a colour terminal: SGR sequence, text, reset.
Render(sgr, text) == <<ESC, "[">> \o sgr \o <<"m">> \o text \o <<ESC, "[", "0", "m">>

(***************************************************************************)
(* The messages the remote source delivers in this model                   *)
(***************************************************************************)
\* ok
PlainLine == <<"o", "k">>
\* {"a":1}
JSONLine == <<"{", "\"", "a", "\"", ":", "1", "}">>
\* 1 - - [t] "GET / H" 200 5 "-" "-"
AccessLine ==
    <<"1", " ", "-", " ", "-", " ", "[", "t", "]", " ",
      "\"", "G", "E", "T", " ", "/", " ", "H", "\"", " ",
      "2", "0", "0", " ", "5", " ", "\"", "-", "\"", " ", "\"", "-", "\"">>

Messages == {PlainLine, JSONLine, AccessLine}

(***************************************************************************)
(* parser.go                                                               *)
(***************************************************************************)
UIConfig == [ParseAccessLogs : BOOLEAN, ColorizeFields : BOOLEAN, PrettyPrintJSON : BOOLEAN]

NewUIConfig == [ParseAccessLogs |-> TRUE, ColorizeFields |-> TRUE, PrettyPrintJSON |-> TRUE]

\* The configuration after the J key turned formatting off
RawUIConfig == [ParseAccessLogs |-> FALSE, ColorizeFields |-> FALSE, PrettyPrintJSON |-> FALSE]

nil == "nil"             \* a nil pointer, error or token
noEntry == [IP |-> <<>>]   \* the nil *AccessLogEntry
noRegexp == <<>>           \* the nil *regexp.Regexp

\* accessLogRegex.FindStringSubmatch, tabulated on Messages: AccessLine is the
\* only message the Common Log Format expression matches.
parseAccessLog(logLine) ==
    IF logLine = AccessLine
    THEN [IP |-> <<"1">>, Method |-> <<"G", "E", "T">>, Path |-> <<"/">>,
          Status |-> <<"2", "0", "0">>, Size |-> <<"5">>]
    ELSE noEntry

formatAccessLog(entry, config) ==
    IF ~config.ColorizeFields
    THEN entry.IP \o <<" ">> \o entry.Method \o <<" ">> \o entry.Path \o <<" ">>
         \o entry.Status \o <<" ">> \o entry.Size
    ELSE LET statusStyle ==
                 CASE Head(entry.Status) = "2" -> <<"1", ";", "9", "2">>
                   [] Head(entry.Status) = "3" -> <<"1", ";", "9", "3">>
                   [] Head(entry.Status) = "4" -> <<"1", ";", "9", "1">>
                   [] Head(entry.Status) = "5" -> <<"1", ";", "3", "1">>
                   [] OTHER -> <<"9", "7">>
             methodStyle ==
                 IF entry.Method = <<"G", "E", "T">> THEN <<"1", ";", "9", "4">>
                 ELSE <<"9", "7">>
         IN  Render(<<"3", "6">>, entry.IP) \o <<" ">>
             \o Render(methodStyle, entry.Method) \o <<" ">>
             \o Render(<<"9", "7">>, entry.Path) \o <<" ">>
             \o Render(statusStyle, entry.Status) \o <<" ">>
             \o Render(<<"9", "0">>, entry.Size)

\* json.Unmarshal succeeds: tabulated on Messages.
isJSON(s) == TrimSpace(s) = JSONLine

\* json.MarshalIndent(obj, "", "  ") of {"a":1}
formatJSON(jsonStr) ==
    IF jsonStr = JSONLine
    THEN <<"{", NL, " ", " ", "\"", "a", "\"", ":", " ", "1", NL, "}">>
    ELSE jsonStr

maxMessageLength == 10000

formatLogMessage(message, config) ==
    IF ~config.ParseAccessLogs /\ ~config.PrettyPrintJSON
    THEN TrimSpace(message)
    ELSE LET msg == TrimSpace(message) IN
         IF Len(msg) > maxMessageLength THEN msg
         ELSE IF config.ParseAccessLogs /\ parseAccessLog(msg) # noEntry
              THEN formatAccessLog(parseAccessLog(msg), config)
              ELSE IF config.PrettyPrintJSON /\ isJSON(msg)
                   THEN formatJSON(msg)
                   ELSE msg   \* no message of Messages embeds a JSON object

\* ts.Format("15:04:05") for a time ts seconds after midnight, ts < 60
FormatTime(ts) == <<"0", "0", ":", "0", "0", ":", Digits[(ts \div 10) + 1], Digits[(ts % 10) + 1]>>

makeLogEntry(ts, originalMsg, cfg) ==
    LET formatted == formatLogMessage(originalMsg, cfg) IN
    [Timestamp |-> ts,
     OriginalMessage |-> originalMsg,
     Message |-> formatted,
     Raw |-> <<"[">> \o FormatTime(ts) \o <<"]", " ">> \o formatted]

(***************************************************************************)
(* logstore.go                                                             *)
(***************************************************************************)
newLogStore(capacity) == [entries |-> <<>>, start |-> 0, capacity |-> capacity]

\* Append that never overwrites: it grows past capacity and never reports a wrap.
StoreAppendGrowing(s, entry) ==
    [store |-> [s EXCEPT !.entries = Append(s.entries, entry)], wrapped |-> FALSE]

\* Append: the new store and the value returned
StoreAppend(s, entry) ==
    IF Len(s.entries) < s.capacity
    THEN [store |-> [s EXCEPT !.entries = Append(s.entries, entry)], wrapped |-> FALSE]
    ELSE [store |-> [s EXCEPT !.entries[s.start + 1] = entry,
                              !.start = (s.start + 1) % s.capacity],
          wrapped |-> TRUE]

StoreLen(s) == Len(s.entries)

\* Slice that hands back the ring as stored, oldest record not first.
SliceUnrotated(s) == s.entries

Slice(s) ==
    IF Len(s.entries) < s.capacity
    THEN s.entries
    ELSE SubSeq(s.entries, s.start + 1, s.capacity) \o SubSeq(s.entries, 1, s.start)

\* Slice that hands back the view and moves the oldest-entry marker on.
StoreSliceAdvances(s) ==
    [store |-> IF Len(s.entries) < s.capacity THEN s
               ELSE [s EXCEPT !.start = (s.start + 1) % s.capacity],
     view |-> Slice(s)]

\* Slice as a call: the store after it (no field is assigned) and the value
\* returned.
StoreSlice(s) == [store |-> s, view |-> Slice(s)]

\* UpdateEntry that brings a position out of range to the nearest slot.
UpdateEntryClamps(s, index, entry) ==
    IF Len(s.entries) = 0 THEN s
    ELSE [s EXCEPT !.entries[Max(0, Min(index, Len(s.entries) - 1)) + 1] = entry]

UpdateEntry(s, index, entry) ==
    IF index < 0 \/ index >= Len(s.entries)
    THEN s
    ELSE [s EXCEPT !.entries[index + 1] = entry]

(***************************************************************************)
(* logModel: construction and helpers                                      *)
(***************************************************************************)
DefaultHeight == 24
LogTimeRange == 2

\* The model as the program starts it: the fields newLogModel sets, and those
\* startLogViewer sets for a live session (height, initialLoad, time range).
newLogModel(capacity, config) ==
    [store |-> newLogStore(capacity),
     config |-> config,
     cursor |-> 0,
     searchMode |-> FALSE,
     searchQuery |-> <<>>,
     searchRegex |-> noRegexp,
     matches |-> <<>>,
     currentMatch |-> -1,
     height |-> DefaultHeight,
     lastToken |-> nil,
     loading |-> FALSE,
     lastError |-> nil,
     initialLoad |-> TRUE,
     fetchCount |-> 0,
     followMode |-> TRUE,
     searchAttempt |-> 0,
     currentTimeRange |-> LogTimeRange,
     needsLazyReprocess |-> FALSE,
     lastLazyReprocess |-> 0,
     highlighted |-> <<>>,
     lastSearchQuery |-> <<>>,
     backToLogGroups |-> FALSE]

safeLogs(M) == Slice(M.store)

\* Go's integer division truncates toward zero.
GoDiv(a, b) == IF a >= 0 THEN a \div b ELSE -((-a) \div b)

\* for i := from; i < end; i++ { m.store.UpdateEntry(i, makeLogEntry(logs[i]...)) }
\* logs is the slice taken before the loop (0-based position i is logs[i + 1]).
RECURSIVE reprocessRange(_, _, _, _, _)
reprocessRange(s, logs, from, end, cfg) ==
    IF from >= end THEN s
    ELSE reprocessRange(
             UpdateEntry(s, from,
                 makeLogEntry(logs[from + 1].Timestamp, logs[from + 1].OriginalMessage, cfg)),
             logs, from + 1, end, cfg)

minCursorDelta == 10
uiReservedHeight == 6
minBatchSize == 30

lazyReprocessNearby(M) ==
    LET logs == safeLogs(M) IN
    IF ~M.needsLazyReprocess THEN M
    ELSE IF Len(logs) = 0 THEN M
    ELSE IF abs(M.cursor - M.lastLazyReprocess) < minCursorDelta THEN M
    ELSE LET viewportHeight == M.height - uiReservedHeight
             batchSize == Max(minBatchSize, GoDiv(viewportHeight, 2))
             from == Max(0, M.cursor - GoDiv(batchSize, 2))
             end == Min(Len(logs), from + batchSize)
         IN  [M EXCEPT !.store = reprocessRange(M.store, logs, from, end, M.config),
                       !.lastLazyReprocess = M.cursor,
                       !.needsLazyReprocess =
                           IF from = 0 /\ end = Len(logs) THEN FALSE ELSE @]

\* fixCursor that leaves the cursor where it is.
fixCursorKeeps(M) == M

\* fixCursor that clamps the cursor but does not pin it in follow mode.
fixCursorClampsOnly(M) ==
    LET n == Len(safeLogs(M)) IN
    IF n = 0 THEN [M EXCEPT !.cursor = 0]
    ELSE lazyReprocessNearby([M EXCEPT !.cursor = Max(0, Min(M.cursor, n - 1))])

fixCursor(M) ==
    LET n == Len(safeLogs(M)) IN
    IF n = 0 THEN [M EXCEPT !.cursor = 0]
    ELSE LET c1 == IF M.cursor >= n THEN n - 1 ELSE M.cursor
             c2 == IF c1 < 0 THEN 0 ELSE c1
             c3 == IF M.followMode THEN n - 1 ELSE c2
         IN  lazyReprocessNearby([M EXCEPT !.cursor = c3])

centerOnCursor(M) == fixCursor([M EXCEPT !.followMode = FALSE])

\* clearSearchState that forgets the query as well.
clearSearchStateDropsQuery(M) ==
    [M EXCEPT !.searchRegex = noRegexp,
              !.matches = <<>>,
              !.currentMatch = 0,
              !.highlighted = <<>>,
              !.lastSearchQuery = <<>>,
              !.searchQuery = <<>>]

clearSearchState(M) ==
    [M EXCEPT !.searchRegex = noRegexp,
              !.matches = <<>>,
              !.currentMatch = 0,
              !.highlighted = <<>>,
              !.lastSearchQuery = <<>>]

reprocessVisibleLogs(M) ==
    LET logs == safeLogs(M) IN
    IF Len(logs) = 0 THEN M
    ELSE LET viewportHeight == M.height - uiReservedHeight
             bufferSize == viewportHeight * 2
             from == Max(0, M.cursor - bufferSize)
             end == Min(Len(logs), M.cursor + bufferSize)
         IN  [M EXCEPT !.store = reprocessRange(M.store, logs, from, end, M.config)]

(***************************************************************************)
(* Search and highlighting (model_methods.go)                              *)
(***************************************************************************)
\* The highlight cache is a map from view positions to strings: a function
\* whose domain is the set of keys.  <<>> is the empty map.
MapPut(f, k, v) == [x \in (DOMAIN f) \cup {k} |-> IF x = k THEN v ELSE f[x]]

HighlightSGR == <<"3", "0", ";", "1", "0", "2">>

\* searchRegex.ReplaceAllStringFunc(clean, HighlightStyle().Render): leftmost,
\* non-overlapping matches of the literal, each replaced by its rendering.
RECURSIVE highlightFrom(_, _, _)
highlightFrom(re, clean, i) ==
    IF i > Len(clean) THEN <<>>
    ELSE IF i + Len(re) - 1 <= Len(clean)
            /\ \A k \in 1..Len(re) : Fold(clean[i + k - 1]) = Fold(re[k])
         THEN Render(HighlightSGR, SubSeq(clean, i, i + Len(re) - 1))
              \o highlightFrom(re, clean, i + Len(re))
         ELSE <<clean[i]>> \o highlightFrom(re, clean, i + 1)

highlightLine(re, raw) == highlightFrom(re, stripANSI(raw), 1)

applyHighlights(M) ==
    IF M.searchRegex = noRegexp THEN [M EXCEPT !.highlighted = <<>>]
    ELSE LET logs == safeLogs(M)
             keys == {M.matches[k] : k \in 1..Len(M.matches)} \cap (0..(Len(logs) - 1))
         IN  [M EXCEPT !.highlighted =
                 [idx \in keys |-> highlightLine(M.searchRegex, logs[idx + 1].Raw)]]

refreshCurrentHighlight(M) ==
    IF Len(M.matches) = 0 \/ M.searchRegex = noRegexp THEN M
    ELSE LET logs == safeLogs(M)
             idx == M.matches[M.currentMatch + 1]
         IN  IF idx < 0 \/ idx >= Len(logs) THEN M
             ELSE [M EXCEPT !.highlighted =
                      MapPut(@, idx, highlightLine(M.searchRegex, logs[idx + 1].Raw))]

\* The scan of performSearch: positions of logs, ascending, whose original
\* message or stripped display line matches the expression.
RECURSIVE scanMatches(_, _, _)
scanMatches(re, logs, i) ==
    IF i >= Len(logs) THEN <<>>
    ELSE LET found == MatchString(re, logs[i + 1].OriginalMessage)
                      \/ MatchString(re, stripANSI(logs[i + 1].Raw))
         IN  (IF found THEN <<i>> ELSE <<>>) \o scanMatches(re, logs, i + 1)

\* The selection that marks the match but leaves the cursor where it was.
selectFirstMatchKeepsCursor(M) ==
    centerOnCursor([M EXCEPT !.currentMatch = 0, !.followMode = FALSE])

\* The cursor placement of performSearch once matches were found.
selectFirstMatch(M) ==
    centerOnCursor([M EXCEPT !.currentMatch = 0,
                             !.cursor = M.matches[1],
                             !.followMode = FALSE])

\* performSearch that sends the cursor to the top when nothing matched.
performSearchResetsCursor(M) ==
    IF M.searchQuery = <<>>
    THEN [M EXCEPT !.matches = <<>>, !.highlighted = <<>>]
    ELSE IF M.searchQuery = M.lastSearchQuery THEN M
    ELSE LET M1 == [M EXCEPT !.lastSearchQuery = M.searchQuery,
                             !.searchRegex = M.searchQuery,
                             !.matches = scanMatches(M.searchQuery, safeLogs(M), 0)]
             M2 == IF Len(M1.matches) > 0 THEN selectFirstMatch(M1)
                   ELSE [M1 EXCEPT !.cursor = 0]
         IN  refreshCurrentHighlight(applyHighlights(M2))

performSearch(M) ==
    IF M.searchQuery = <<>>
    THEN [M EXCEPT !.matches = <<>>, !.highlighted = <<>>]
    ELSE IF M.searchQuery = M.lastSearchQuery THEN M
    ELSE \* regexp.Compile of a QuoteMeta'd literal never fails
         LET M1 == [M EXCEPT !.lastSearchQuery = M.searchQuery,
                             !.searchRegex = M.searchQuery,
                             !.matches = scanMatches(M.searchQuery, safeLogs(M), 0)]
             M2 == IF Len(M1.matches) > 0 THEN selectFirstMatch(M1) ELSE M1
         IN  refreshCurrentHighlight(applyHighlights(M2))

\* nextMatch that stops at the last match instead of wrapping.
nextMatchStopsAtEnd(M) ==
    IF Len(M.matches) = 0 THEN M
    ELSE LET cm == Min(M.currentMatch + 1, Len(M.matches) - 1) IN
         refreshCurrentHighlight(centerOnCursor(
             [M EXCEPT !.currentMatch = cm, !.cursor = M.matches[cm + 1],
                       !.followMode = FALSE]))

nextMatch(M) ==
    IF Len(M.matches) = 0 THEN M
    ELSE LET cm == (M.currentMatch + 1) % Len(M.matches) IN
         refreshCurrentHighlight(centerOnCursor(
             [M EXCEPT !.currentMatch = cm, !.cursor = M.matches[cm + 1],
                       !.followMode = FALSE]))

prevMatch(M) ==
    IF Len(M.matches) = 0 THEN M
    ELSE LET cm == (M.currentMatch - 1 + Len(M.matches)) % Len(M.matches) IN
         refreshCurrentHighlight(centerOnCursor(
             [M EXCEPT !.currentMatch = cm, !.cursor = M.matches[cm + 1],
                       !.followMode = FALSE]))

\* n calls of nextMatch in a row
RECURSIVE nextMatchTimes(_, _)
nextMatchTimes(M, n) == IF n = 0 THEN M ELSE nextMatchTimes(nextMatch(M), n - 1)

\* toggleFormat that keeps the search state across the change of format.
toggleFormatKeepsSearch(M) ==
    LET flip == ~M.config.ParseAccessLogs
        M1 == [M EXCEPT !.config = [ParseAccessLogs |-> flip, ColorizeFields |-> flip,
                                    PrettyPrintJSON |-> flip]]
        M3 == [reprocessVisibleLogs(M1) EXCEPT !.needsLazyReprocess = TRUE]
    IN  IF Len(M3.matches) > 0 THEN applyHighlights(M3) ELSE M3

toggleFormat(M) ==
    LET flip == ~M.config.ParseAccessLogs
        M1 == [M EXCEPT !.config = [ParseAccessLogs |-> flip, ColorizeFields |-> flip,
                                    PrettyPrintJSON |-> flip]]
        M2 == reprocessVisibleLogs(clearSearchState(M1))
        M3 == [M2 EXCEPT !.needsLazyReprocess = TRUE]
    IN  IF Len(M3.matches) > 0 THEN applyHighlights(M3) ELSE M3

toggleFollow(M) ==
    LET follow == ~M.followMode
        n == Len(safeLogs(M))
    IN  [M EXCEPT !.followMode = follow,
                  !.cursor = IF follow /\ n > 0 THEN n - 1 ELSE @]

(***************************************************************************)
(* logModel.Update: one operator per message type.  Each yields the model  *)
(* after the handler, the messages of the commands it returned (cmd) and   *)
(* whether it returned tea.Quit.                                           *)
(***************************************************************************)
Msg(type, query) == [type |-> type, query |-> query]

Done(M) == [M |-> M, cmd |-> <<>>, quit |-> FALSE]

\* return m, cmd
Then(M, cmd) == [M |-> M, cmd |-> cmd, quit |-> FALSE]

\* The command fetchLogs() returns: a batch of loadingMsg(true) and the
\* request to the remote source, run concurrently.
fetchLogs == <<Msg("loadingMsg", TRUE), Msg("fetchLogs", <<>>)>>

\* tea.Tick(RefreshInterval, ...): a poll timer that delivers tickMsg
pollTick == <<Msg("tickMsg", <<>>)>>

\* len(key) == 1 for the key names of the model
OneCharKeys == {"q", "J", "F", "/", "b", "n", "N", "k", "j", "g", "G", "H", "c", "h", "o", "0"}

UpdateSearchKey(M, key) ==
    CASE key = "enter" ->
            [performSearch([M EXCEPT !.searchMode = FALSE]) EXCEPT !.followMode = FALSE]
      [] key = "esc" ->
            [M EXCEPT !.searchMode = FALSE, !.searchQuery = <<>>, !.matches = <<>>,
                      !.followMode = FALSE]
      [] key = "backspace" ->
            IF Len(M.searchQuery) > 0
            THEN [M EXCEPT !.searchQuery = SubSeq(@, 1, Len(@) - 1)]
            ELSE M
      [] OTHER ->
            IF key \in OneCharKeys /\ key # "J" /\ key # "F"
            THEN [M EXCEPT !.searchQuery = Append(@, key)]
            ELSE M

UpdateNormalKey(M, key) ==
    CASE key = "/" ->
            Done([M EXCEPT !.searchMode = TRUE, !.searchQuery = <<>>, !.followMode = FALSE])
      [] key = "esc" -> Done(clearSearchState(M))
      [] key \in {"b", "backspace"} ->
            [M |-> M, cmd |-> <<Msg("backToLogGroupsMsg", <<>>)>>, quit |-> FALSE]
      [] key = "n" -> Done([nextMatch(M) EXCEPT !.followMode = FALSE])
      [] key = "N" -> Done([prevMatch(M) EXCEPT !.followMode = FALSE])
      [] key \in {"up", "k"} ->
            Done(fixCursor([M EXCEPT !.cursor = @ - 1, !.followMode = FALSE]))
      [] key \in {"down", "j"} ->
            Done(fixCursor([M EXCEPT !.cursor = @ + 1]))
      [] key \in {"pageup", "ctrl+b"} ->
            Done(fixCursor([M EXCEPT !.cursor = @ - M.height, !.followMode = FALSE]))
      [] key \in {"pagedown", "ctrl+f"} ->
            Done(fixCursor([M EXCEPT !.cursor = @ + M.height]))
      [] key = "g" ->
            Done(fixCursor([M EXCEPT !.cursor = 0, !.followMode = FALSE]))
      [] key \in {"G", "end"} ->
            Then(fixCursor([M EXCEPT !.followMode = TRUE]), pollTick)
      [] OTHER -> Done(M)   \* "H" and "c" return commands that leave the model alone

UpdateKey(M, key) ==
    CASE key \in {"q", "ctrl+c"} -> [M |-> M, cmd |-> <<>>, quit |-> TRUE]
      [] key = "J" -> Done(toggleFormat(M))
      [] key = "F" -> LET M1 == toggleFollow(M) IN
                      Then(M1, IF M1.followMode THEN pollTick ELSE <<>>)
      [] OTHER -> IF M.searchMode THEN Done(UpdateSearchKey(M, key))
                  ELSE UpdateNormalKey(M, key)

UpdateWindowSize(M, Height) == Done([M EXCEPT !.height = Height - 3])

\* The delayed search dropped on arrival.
UpdateDelayedSearchDrops(M, query) == Done(M)

UpdateDelayedSearch(M, query) == Done(performSearch([M EXCEPT !.searchQuery = query]))

\* The tick that polls nothing and ends the tick cycle.
UpdateTickIdle(M) == Done(M)

UpdateTick(M) == IF M.followMode THEN Then(M, fetchLogs \o pollTick) ELSE Done(M)

UpdateLoading(M, loading) == Done([M EXCEPT !.loading = loading])

\* The failure that wipes what the session holds.
UpdateErrorClears(M, err) ==
    Done([newLogModel(M.store.capacity, M.config) EXCEPT !.lastError = err])

UpdateError(M, err) == Done([M EXCEPT !.loading = FALSE, !.lastError = err])

noLogsFound == "no logs found"   \* fmt.Errorf("no logs found in the last %s", ...)

UpdateNoLogsFound(M, msg) ==
    LET M1 == [M EXCEPT !.loading = FALSE] IN
    IF msg.canExpand THEN Then(M1, fetchLogs)
    ELSE Done([M1 EXCEPT !.lastError = noLogsFound])

UpdateBackToLogGroups(M) ==
    [M |-> [M EXCEPT !.backToLogGroups = TRUE], cmd |-> <<>>, quit |-> TRUE]

\* for _, log := range msg.logs { if m.store.Append(log) { wrapped = true } }
RECURSIVE appendAll(_, _)
appendAll(s, logs) ==
    IF logs = <<>> THEN [store |-> s, wrapped |-> FALSE]
    ELSE LET one == StoreAppend(s, Head(logs))
             rest == appendAll(one.store, Tail(logs))
         IN  [store |-> rest.store, wrapped |-> one.wrapped \/ rest.wrapped]

maxFetchCount == 3
maxSearchAttempt == 3

\* The function expandSearchWindow() returns, run as a command: it writes
\* searchAttempt and currentTimeRange and yields the noLogsFoundMsg.
expandSearchWindow(M) ==
    LET attempt == M.searchAttempt + 1
        M1 == [M EXCEPT !.searchAttempt = attempt,
                        !.currentTimeRange =
                            CASE attempt = 1 -> 24
                              [] attempt = 2 -> 24 * 7
                              [] attempt = 3 -> 24 * 30
                              [] OTHER -> @]
    IN  [M |-> M1,
         msg |-> Msg("noLogsFoundMsg",
                     [timeRange |-> M1.currentTimeRange, canExpand |-> attempt <= 3])]

\* The end of the logsWithTokenMsg case: pagination of the initial load.
paginate(M, msg) ==
    IF msg.isInitial /\ msg.nextToken # nil /\ Len(msg.logs) > 0 /\ M.fetchCount < maxFetchCount
    THEN Then([M EXCEPT !.lastToken = msg.nextToken, !.fetchCount = @ + 1], fetchLogs)
    ELSE IF msg.isInitial /\ Len(safeLogs(M)) = 0 /\ M.searchAttempt < maxSearchAttempt
         THEN Then(M, <<Msg("expandSearchWindow", <<>>)>>)
         ELSE Done([M EXCEPT !.initialLoad = FALSE, !.lastToken = nil, !.fetchCount = 0])

\* The cursor placement that follows the appends when no re-search is scheduled.
followLatest(M) ==
    LET M1 == fixCursor(M)
        n == Len(safeLogs(M1))
    IN  IF M1.followMode /\ n > 0 THEN [M1 EXCEPT !.cursor = n - 1] ELSE M1

\* The wrapped branch without the invalidation: only the cursor is fixed.
invalidateSearchKeeps(M) == fixCursor(M)

\* The wrapped branch: the search state is dropped, the cursor fixed.
invalidateSearch(M) ==
    fixCursor(clearSearchState(M))

UpdateLogs(M, msg) ==
    LET M0 == [M EXCEPT !.loading = FALSE, !.lastError = nil] IN
    IF Len(msg.logs) = 0 THEN paginate(M0, msg)
    ELSE LET app == appendAll(M0.store, msg.logs)
             M1 == [M0 EXCEPT !.store = app.store]
         IN  IF app.wrapped
             THEN LET oldQuery == M1.searchQuery
                      M2 == invalidateSearch(M1)
                  IN  IF oldQuery # <<>>
                      THEN [M |-> [M2 EXCEPT !.searchQuery = oldQuery],
                            cmd |-> <<Msg("delayedSearchMsg", oldQuery)>>,
                            quit |-> FALSE]
                      ELSE paginate(followLatest(M2), msg)
             ELSE paginate(followLatest(M1), msg)

(***************************************************************************)
(* The store on its own: the calls of logstore_test.go                     *)
(***************************************************************************)
Call(op, key, index, wrapped) ==
    [op |-> op, key |-> key, index |-> index, wrapped |-> wrapped]

Capacities == 1..MaxCapacity

InitStore ==
    /\ \E capacity \in Capacities, config \in {NewUIConfig, RawUIConfig} :
         m = newLogModel(capacity, config)
    /\ user = [heights |-> {}, keys |-> {}]
    /\ running = TRUE
    /\ pending = <<>>
    /\ source = <<>>
    /\ history = <<>>
    /\ last = Call("new", "", 0, FALSE)

AppendCall ==
    /\ Len(history) < MaxAppends
    /\ \E msg \in {PlainLine, AccessLine} :
         LET entry == makeLogEntry(Len(history), msg, m.config)
             r == StoreAppend(m.store, entry)
         IN  /\ m' = [m EXCEPT !.store = r.store]
             /\ history' = Append(history, entry)
             /\ last' = Call("Append", "", Len(history), r.wrapped)
    /\ UNCHANGED <<user, running, pending, source>>

\* UpdateEntry as its callers use it: the entry is the one Slice() reports at
\* the position, made again under the format that changes its display text
\* (the formatted one for a line shown as received, else the raw one); and
\* positions out of range.
UpdateEntryCall ==
    /\ \E index \in -1..m.store.capacity :
         LET logs == Slice(m.store)
             from == IF index \in 0..(Len(logs) - 1) THEN logs[index + 1]
                     ELSE makeLogEntry(0, PlainLine, m.config)
             cfg == IF from.Message = from.OriginalMessage THEN NewUIConfig ELSE RawUIConfig
             entry == makeLogEntry(from.Timestamp, from.OriginalMessage, cfg)
         IN  /\ m' = [m EXCEPT !.store = UpdateEntry(m.store, index, entry)]
             /\ last' = [Call("UpdateEntry", "", index, FALSE) EXCEPT !.key = entry]
    /\ UNCHANGED <<user, running, pending, source, history>>

\* Slice() called on the store; the value returned is kept in last.key.
SliceCall ==
    /\ LET r == StoreSlice(m.store) IN
       /\ m' = [m EXCEPT !.store = r.store]
       /\ last' = [Call("Slice", "", 0, FALSE) EXCEPT !.key = r.view]
    /\ UNCHANGED <<user, running, pending, source, history>>

NextAppend == AppendCall

SpecAppend == InitStore /\ [][NextAppend]_vars

NextStore == AppendCall \/ UpdateEntryCall \/ SliceCall

SpecStore == InitStore /\ [][NextStore]_vars

(***************************************************************************)
(* The viewer: messages delivered to Update one at a time                  *)
(***************************************************************************)
\* What FilterLogEvents returns: events (time, message), the continuation
\* token, and whether the fetch was one of the initial load.
Events(first, msgs) == [k \in 1..Len(msgs) |-> [Timestamp |-> first + k - 1, Message |-> msgs[k]]]

Fetched(events, nextToken, isInitial) ==
    [events |-> events, nextToken |-> nextToken, isInitial |-> isInitial]

Repeat(x, n) == [i \in 1..n |-> x]

\* Keys the user presses while typing a query, and in normal mode.
TypedChars == {"h", "o", "0"}
SearchModeKeys == {"enter", "esc", "backspace", "J", "F"} \cup TypedChars
NormalModeKeys ==
    {"/", "esc", "n", "N", "up", "down", "pageup", "pagedown", "g", "G", "J", "F"}

\* A session: the capacity of the store and what the remote source returns,
\* fetch by fetch, the heights the window takes and the keys pressed.
\* PagedSession pages its initial load and wraps a store of two twice;
\* WrapSession fills a store of three and wraps it once.  DeepSession fills
\* a store large enough for the cursor to travel minCursorDelta positions,
\* then wraps it half way round, under the keys that take the cursor there.
\* MatchSession searches for "0", which every display line holds in its
\* time stamp, and walks the matches.
PagedSession ==
    [capacity |-> 2,
     heights |-> {DefaultHeight + 3},
     keys |-> (SearchModeKeys \cup NormalModeKeys) \ {"h", "0"},
     source |-> << Fetched(Events(0, <<AccessLine>>), "token", TRUE),
                   Fetched(Events(1, <<PlainLine, AccessLine>>), nil, TRUE),
                   Fetched(<<>>, nil, FALSE),
                   Fetched(Events(3, <<JSONLine>>), nil, FALSE) >>]

WrapSession ==
    [capacity |-> 3,
     heights |-> {10},
     keys |-> (SearchModeKeys \cup NormalModeKeys) \ {"o", "0"},
     source |-> << Fetched(Events(0, <<PlainLine, AccessLine, JSONLine>>), nil, TRUE),
                   Fetched(Events(3, <<AccessLine>>), nil, FALSE) >>]

DeepSession ==
    [capacity |-> minCursorDelta + 2,
     heights |-> {DefaultHeight + 3},
     keys |-> {"/", "h", "enter", "J", "g", "G"},
     source |-> << Fetched(Events(0, Repeat(PlainLine, minCursorDelta + 1) \o <<AccessLine>>),
                           nil, TRUE),
                   Fetched(Events(12, Repeat(PlainLine, (minCursorDelta + 2) \div 2)),
                           nil, FALSE) >>]

MatchSession ==
    [capacity |-> 3,
     heights |-> {DefaultHeight + 3},
     keys |-> {"/", "0", "enter", "n", "N", "esc"},
     source |-> << Fetched(Events(0, <<PlainLine, AccessLine, JSONLine>>), nil, TRUE) >>]

Sessions == {PagedSession, WrapSession, DeepSession, MatchSession}

InitOf(sessions) ==
    /\ \E session \in sessions :
         /\ m = newLogModel(session.capacity, NewUIConfig)
         /\ user = [heights |-> session.heights, keys |-> session.keys]
         /\ source = session.source
    /\ running = TRUE
    /\ pending = <<>>
    /\ history = <<>>
    /\ last = Call("new", "", 0, FALSE)

Init == InitOf(Sessions)

\* In the viewer sessions the remote source delivers its results on its own
\* schedule (source), whether or not a poll is due: of the commands a handler
\* returns, the ones queued are those whose message the session delivers.
IsDeferred(c) == c.type \in {"delayedSearchMsg", "backToLogGroupsMsg"}

Apply(r) ==
    /\ m' = r.M
    /\ running' = ~r.quit
    /\ pending' = pending \o SelectSeq(r.cmd, IsDeferred)

KeyMsg ==
    /\ running
    /\ \E key \in user.keys :
         /\ m.searchMode => key \in SearchModeKeys
         /\ ~m.searchMode => key \in NormalModeKeys
         /\ m.searchMode /\ key \in TypedChars => Len(m.searchQuery) < MaxQueryLen
         /\ Apply(UpdateKey(m, key))
    /\ UNCHANGED <<user, source, history, last>>

WindowSizeMsg ==
    /\ running
    /\ \E Height \in user.heights : Apply(UpdateWindowSize(m, Height))
    /\ UNCHANGED <<user, source, history, last>>

\* The entries of a fetch result: makeLogEntry under the format in force.
logsOf(got, config) ==
    [logs |-> [k \in 1..Len(got.events) |->
                  makeLogEntry(got.events[k].Timestamp, got.events[k].Message, config)],
     nextToken |-> got.nextToken,
     isInitial |-> got.isInitial]

LogsWithTokenMsg ==
    /\ running
    /\ source # <<>>
    /\ Apply(UpdateLogs(m, logsOf(Head(source), m.config)))
    /\ source' = Tail(source)
    /\ UNCHANGED <<user, history, last>>

Without(s, i) == SubSeq(s, 1, i - 1) \o SubSeq(s, i + 1, Len(s))

DelayedSearchMsg ==
    /\ running
    /\ \E i \in 1..Len(pending) :
         /\ pending[i].type = "delayedSearchMsg"
         /\ m' = UpdateDelayedSearch(m, pending[i].query).M
         /\ pending' = Without(pending, i)
    /\ UNCHANGED <<user, running, source, history, last>>

Next ==
    \/ KeyMsg
    \/ WindowSizeMsg
    \/ LogsWithTokenMsg
    \/ DelayedSearchMsg

Spec == Init /\ [][Next]_vars

\* The 50 ms timer of a deferred re-search fires and its message is taken
\* from the queue: the queue's part of a DelayedSearchMsg step.
TimerFires ==
    /\ running
    /\ \E i \in 1..Len(pending) :
         /\ pending[i].type = "delayedSearchMsg"
         /\ pending' = Without(pending, i)

\* The viewer in which a pending delayedSearchMsg is eventually delivered.
SpecLive == Init /\ [][Next]_vars /\ WF_pending(TimerFires)

(***************************************************************************)
(* The viewer with its fetches and timers: every command Update returns is *)
(* queued in pending until it has run and its message has been delivered.  *)
(***************************************************************************)
\* FilterLogEvents returning an error
Failed(err) == [err |-> err]

\* QuietSession: the log group holds no record in any time window.
\* PollSession: a first page with a continuation token, a request that
\* fails, a record, a request that fails.
\* TokenSession: a log group with more pages than the initial load takes.
QuietSession ==
    [capacity |-> 2,
     heights |-> {DefaultHeight + 3},
     keys |-> {"F"},
     source |-> Repeat(Fetched(<<>>, nil, TRUE), maxSearchAttempt + 2)]

PollSession ==
    [capacity |-> 3,
     heights |-> {DefaultHeight + 3},
     keys |-> {"/", "o", "enter", "G"},
     source |-> << Fetched(Events(0, <<PlainLine>>), "token", TRUE),
                   Failed("timeout"),
                   Fetched(Events(1, <<AccessLine>>), nil, TRUE),
                   Failed("timeout") >>]

TokenSession ==
    [capacity |-> 2,
     heights |-> {DefaultHeight + 3},
     keys |-> {},
     source |-> Repeat(Fetched(Events(0, <<PlainLine>>), "token", TRUE), maxFetchCount + 2)]

FetchSessions == {QuietSession, PollSession, TokenSession}

\* logModel.Init: the first fetch and the first poll timer
InitFetchOf(sessions) ==
    /\ \E session \in sessions :
         /\ m = newLogModel(session.capacity, NewUIConfig)
         /\ user = [heights |-> session.heights, keys |-> session.keys]
         /\ source = session.source
    /\ running = TRUE
    /\ pending = fetchLogs \o pollTick
    /\ history = <<>>
    /\ last = Call("new", "", 0, FALSE)

InitFetch == InitFetchOf(FetchSessions)

\* Update has processed pending[i] (or a key, i = 0) with result r.
Issue(i, r) ==
    /\ m' = r.M
    /\ running' = ~r.quit
    /\ pending' = (IF i = 0 THEN pending ELSE Without(pending, i)) \o r.cmd
    /\ Len(pending') <= MaxPending

LiveKeyMsg ==
    /\ running
    /\ \E key \in user.keys :
         /\ m.searchMode => key \in SearchModeKeys
         /\ ~m.searchMode => key \in NormalModeKeys
         /\ m.searchMode /\ key \in TypedChars => Len(m.searchQuery) < MaxQueryLen
         /\ Issue(0, UpdateKey(m, key))
    /\ UNCHANGED <<user, source, history, last>>

TickMsg ==
    /\ running
    /\ \E i \in 1..Len(pending) :
         /\ pending[i].type = "tickMsg"
         /\ Issue(i, UpdateTick(m))
    /\ UNCHANGED <<user, source, history, last>>

LoadingMsg ==
    /\ running
    /\ \E i \in 1..Len(pending) :
         /\ pending[i].type = "loadingMsg"
         /\ Issue(i, UpdateLoading(m, pending[i].query))
    /\ UNCHANGED <<user, source, history, last>>

\* if m.initialLoad && m.lastToken != nil { input.NextToken = m.lastToken }:
\* the request asks for a follow-up page of the initial load.
usesNextToken(M) == M.initialLoad /\ M.lastToken # nil

\* The request of fetchLogs returns: the command reads the model's fields
\* as they are then and yields its message, an error or the entries.
FetchLogsReturns ==
    /\ running
    /\ source # <<>>
    /\ \E i \in 1..Len(pending) :
         /\ pending[i].type = "fetchLogs"
         /\ LET got == Head(source) IN
            pending' = [pending EXCEPT ![i] =
                IF "err" \in DOMAIN got THEN Msg("error", got.err)
                ELSE Msg("logsWithTokenMsg",
                         logsOf([got EXCEPT !.isInitial = m.initialLoad], m.config))]
    /\ source' = Tail(source)
    /\ history' = IF usesNextToken(m) THEN Append(history, m.lastToken) ELSE history
    /\ UNCHANGED <<user, m, running, last>>

ErrorMsg ==
    /\ running
    /\ \E i \in 1..Len(pending) :
         /\ pending[i].type = "error"
         /\ Issue(i, UpdateError(m, pending[i].query))
    /\ UNCHANGED <<user, source, history, last>>

FetchedLogsMsg ==
    /\ running
    /\ \E i \in 1..Len(pending) :
         /\ pending[i].type = "logsWithTokenMsg"
         /\ Issue(i, UpdateLogs(m, pending[i].query))
    /\ UNCHANGED <<user, source, history, last>>

\* The function of expandSearchWindow runs, outside Update.
ExpandSearchWindowRuns ==
    /\ running
    /\ \E i \in 1..Len(pending) :
         /\ pending[i].type = "expandSearchWindow"
         /\ m' = expandSearchWindow(m).M
         /\ pending' = [pending EXCEPT ![i] = expandSearchWindow(m).msg]
    /\ UNCHANGED <<user, running, source, history, last>>

NoLogsFoundMsg ==
    /\ running
    /\ \E i \in 1..Len(pending) :
         /\ pending[i].type = "noLogsFoundMsg"
         /\ Issue(i, UpdateNoLogsFound(m, pending[i].query))
    /\ UNCHANGED <<user, source, history, last>>

NextFetch ==
    \/ LiveKeyMsg
    \/ TickMsg
    \/ LoadingMsg
    \/ FetchLogsReturns
    \/ ErrorMsg
    \/ FetchedLogsMsg
    \/ ExpandSearchWindowRuns
    \/ NoLogsFoundMsg

SpecFetch == InitFetch /\ [][NextFetch]_vars

\* RetrySession: an empty first window, a request that fails, a record, a
\* request that fails; the user may start a search, which ends follow mode,
\* and never restarts the poll cycle.
RetrySession ==
    [capacity |-> 2,
     heights |-> {DefaultHeight + 3},
     keys |-> {"/", "enter"},
     source |-> << Fetched(<<>>, nil, TRUE),
                   Failed("timeout"),
                   Fetched(Events(0, <<PlainLine>>), nil, TRUE),
                   Failed("timeout") >>]

InitPoll == InitFetchOf({RetrySession})

\* The runtime runs every command it is handed and delivers every message
\* it is sent; a timer that was set fires.
Delivery ==
    \/ TickMsg
    \/ LoadingMsg
    \/ FetchLogsReturns
    \/ ErrorMsg
    \/ FetchedLogsMsg
    \/ ExpandSearchWindowRuns
    \/ NoLogsFoundMsg

\* The fetch sessions in which no command or message stays undelivered
\* while the program runs.
SpecPoll == InitPoll /\ [][NextFetch]_vars /\ WF_vars(Delivery)

(***************************************************************************)
(* Rendering: the rows of the view that View draws                         *)
(***************************************************************************)
viewMargin == 6   \* m.height - 6: rows left for records

\* "Calculate viewport" in View: the positions start <= i < end are drawn.
viewport(M) ==
    LET n == Len(safeLogs(M))
        rows == M.height - viewMargin
        start0 == M.cursor - GoDiv(rows, 2)
        start1 == IF start0 < 0 THEN 0 ELSE start0
        end1 == start1 + rows
    IN  IF end1 > n
        THEN [start |-> IF n - rows < 0 THEN 0 ELSE n - rows, end |-> n]
        ELSE [start |-> start1, end |-> end1]

\* A rendering session: the first fetch has filled the view with n records;
\* the user moves the cursor and resizes the window, and View is called.
InitView ==
    /\ \E n \in 1..MaxView :
         m = UpdateLogs(newLogModel(MaxView, NewUIConfig),
                        logsOf(Fetched(Events(0, Repeat(PlainLine, n)), nil, TRUE),
                               NewUIConfig)).M
    /\ user = [heights |-> 1..MaxWindowRows, keys |-> {"up", "down", "g", "G"}]
    /\ source = <<>>
    /\ running = TRUE
    /\ pending = <<>>
    /\ history = <<>>
    /\ last = Call("new", "", 0, FALSE)

\* View runs: past its guards it computes the rows to draw.
ViewCall ==
    /\ m.height > 0
    /\ Len(safeLogs(m)) > 0
    /\ last' = Call("View", viewport(m), m.cursor, FALSE)
    /\ UNCHANGED <<user, m, running, pending, source, history>>

NextView ==
    \/ KeyMsg
    \/ WindowSizeMsg
    \/ ViewCall

SpecView == InitView /\ [][NextView]_vars

(***************************************************************************)
(* The log group selector (loggroup_selector.go).  In its sessions the     *)
(* variable m holds the logGroupSelectorModel; width and height, which     *)
(* only View reads, are left out.                                          *)
(***************************************************************************)
\* strings.ToLower
ToLower(s) == [i \in 1..Len(s) |-> Fold(s[i])]

\* strings.Contains
Contains(s, substr) ==
    \E i \in 0..(Len(s) - Len(substr)) : SubSeq(s, i + 1, i + Len(substr)) = substr

newLogGroupSelector(logGroups) ==
    [logGroups |-> logGroups,
     filteredGroups |-> logGroups,
     cursor |-> 0,
     selected |-> <<>>,
     changeRegion |-> FALSE,
     quit |-> FALSE,
     searchQuery |-> <<>>]

\* filterLogGroups that compares the names as they are written.
filterLogGroupsExact(M) ==
    IF M.searchQuery = <<>> THEN [M EXCEPT !.filteredGroups = M.logGroups, !.cursor = 0]
    ELSE LET keep(group) == Contains(group, M.searchQuery)
         IN  [M EXCEPT !.filteredGroups = SelectSeq(M.logGroups, keep), !.cursor = 0]

filterLogGroups(M) ==
    IF M.searchQuery = <<>> THEN [M EXCEPT !.filteredGroups = M.logGroups, !.cursor = 0]
    ELSE LET query == ToLower(M.searchQuery)
             keep(group) == Contains(ToLower(group), query)
         IN  [M EXCEPT !.filteredGroups = SelectSeq(M.logGroups, keep), !.cursor = 0]

\* Keys with a name of their own carry no runes; any other key is the
\* character typed.
NamedKeys == {"ctrl+c", "up", "down", "enter", "esc", "backspace"}
Runes(key) == IF key \in NamedKeys THEN <<>> ELSE <<key>>

\* The letters of the model's alphabet, and the characters the default
\* branch accepts: a-z, A-Z, 0-9, '-', '_', '/', '.'.
Letters == {"a", "A", "e", "j", "k", "q", "R"}
IsFilterRune(char) ==
    \/ char \in Letters
    \/ IsDigit(char)
    \/ char \in {"-", "_", "/", "."}

\* logGroupSelectorModel.Update, case tea.KeyMsg
UpdateSelectorKey(M, key) ==
    CASE key \in {"q", "ctrl+c"} ->
            [M |-> [M EXCEPT !.quit = TRUE], cmd |-> <<>>, quit |-> TRUE]
      [] key = "R" ->
            [M |-> [M EXCEPT !.changeRegion = TRUE], cmd |-> <<>>, quit |-> TRUE]
      [] key \in {"up", "k"} ->
            Done(IF M.cursor > 0 THEN [M EXCEPT !.cursor = @ - 1] ELSE M)
      [] key \in {"down", "j"} ->
            Done(IF M.cursor < Len(M.filteredGroups) - 1
                 THEN [M EXCEPT !.cursor = @ + 1] ELSE M)
      [] key = "enter" ->
            IF Len(M.filteredGroups) > 0
            THEN [M |-> [M EXCEPT !.selected = M.filteredGroups[M.cursor + 1]],
                  cmd |-> <<>>, quit |-> TRUE]
            ELSE Done(M)
      [] key = "esc" ->
            IF M.searchQuery # <<>>
            THEN Done([M EXCEPT !.searchQuery = <<>>,
                                !.filteredGroups = M.logGroups,
                                !.cursor = 0])
            ELSE [M |-> [M EXCEPT !.quit = TRUE], cmd |-> <<>>, quit |-> TRUE]
      [] key = "backspace" ->
            IF Len(M.searchQuery) > 0
            THEN Done(filterLogGroups([M EXCEPT !.searchQuery = SubSeq(@, 1, Len(@) - 1)]))
            ELSE Done(M)
      [] OTHER ->
            IF Len(Runes(key)) > 0 /\ IsFilterRune(Runes(key)[1])
            THEN Done(filterLogGroups([M EXCEPT !.searchQuery = @ \o Runes(key)]))
            ELSE Done(M)

\* Sessions of the selector: the log groups of the account (one name is
\* written in capitals, two share a prefix), or an account without any;
\* keys the user presses, the space bar included.
LogGroupLists ==
    { << <<"/", "a", "e">>, <<"/", "A", "k">>, <<"q", "-", "e">> >>, <<>> }

SelectorKeys == NamedKeys \cup {"a", "A", "e", "k", "j", "q", "R", "/", "-", " "}

InitSelector ==
    /\ \E logGroups \in LogGroupLists : m = newLogGroupSelector(logGroups)
    /\ user = [heights |-> {}, keys |-> SelectorKeys]
    /\ running = TRUE
    /\ pending = <<>>
    /\ source = <<>>
    /\ history = <<>>
    /\ last = Call("new", "", 0, FALSE)

SelectorKeyMsg ==
    /\ running
    /\ \E key \in user.keys :
         LET r == UpdateSelectorKey(m, key) IN
         /\ Len(r.M.searchQuery) <= MaxFilterLen
         /\ m' = r.M
         /\ running' = ~r.quit
         /\ last' = Call("key", key, 0, FALSE)
    /\ UNCHANGED <<user, pending, source, history>>

NextSelector == SelectorKeyMsg

SpecSelector == InitSelector /\ [][NextSelector]_vars

(***************************************************************************)
(* The ring buffer (logstore.go)                                           *)
(***************************************************************************)
\* C1: after any number of Append calls on a store of capacity C, Len() is
\* min(number of Append calls, C), and the k-th Append call (counting from 0)
\* returned true exactly when k >= C.
C1_LenAndWrapReport ==
    /\ StoreLen(m.store) = Min(Len(history), m.store.capacity)
    /\ last.op = "Append" => (last.wrapped <=> last.index >= m.store.capacity)

\* An Append call has overwritten the oldest record of a store of capacity > 1.
C1_Witness ==
    /\ last.op = "Append" /\ last.wrapped
    /\ m.store.capacity > 1
    /\ StoreLen(m.store) = m.store.capacity

\* C2: after n Append calls on a store of capacity C, Slice() is the last
\* min(n, C) appended records, in the order they were appended.
C2_SliceIsLatestInOrder ==
    LET n == Len(history)
        k == Min(n, m.store.capacity)
    IN  Slice(m.store) = SubSeq(history, n - k + 1, n)

\* The ring has wrapped to a start position other than 0.
C2_Witness ==
    /\ m.store.start # 0
    /\ Len(history) > m.store.capacity
    /\ Len(Slice(m.store)) > 1

\* C7: UpdateEntry(position, record) with a position inside the view replaces
\* the record Slice() reports at that position and changes nothing else of
\* the view, also when the ring has wrapped and its start is not 0.
C7_UpdateEntryReplacesViewPosition ==
    [][(last'.op = "UpdateEntry" /\ last'.index \in 0..(StoreLen(m.store) - 1))
         => Slice(m'.store) = [Slice(m.store) EXCEPT ![last'.index + 1] = last'.key]]_vars

\* C24: calling Slice() twice with no Append or UpdateEntry in between
\* returns sequences of identical length, content and order, whether the
\* store is still filling or full and wrapped, and the length of what
\* Slice() returns is always Len().
C24_SliceIdempotent ==
    [][last'.op = "Slice"
         => /\ Len(last'.key) = StoreLen(m'.store)
            /\ last.op = "Slice" => last'.key = last.key]_vars

\* Slice() has been called on a full store whose oldest record is not in
\* slot 0.
C24_Witness ==
    /\ last.op = "Slice"
    /\ StoreLen(m.store) = m.store.capacity
    /\ m.store.start # 0
    /\ last.key = Slice(m.store)

\* C25: UpdateEntry with a position that is negative or not less than the
\* current record count is a silent no-op: no slot, count or oldest-entry
\* marker of the store changes.
C25_UpdateEntryOutOfRangeNoOp ==
    [][(last'.op = "UpdateEntry"
          /\ (last'.index < 0 \/ last'.index >= StoreLen(m.store)))
         => m'.store = m.store]_vars

\* UpdateEntry was called past the records of a store that holds some, or
\* with a negative position.
C25_Witness ==
    /\ last.op = "UpdateEntry"
    /\ StoreLen(m.store) > 0
    /\ (last.index < 0 \/ last.index >= StoreLen(m.store))
    /\ last.key # Slice(m.store)[1]

(***************************************************************************)
(* The viewer (Update and the methods it calls)                            *)
(***************************************************************************)
\* C3: in every state the viewer reaches, the cursor is a valid position of
\* the view, 0 <= cursor < len(view), when the view is not empty, and is 0
\* when the view is empty.
C3_CursorInView ==
    LET n == Len(safeLogs(m)) IN
    IF n = 0 THEN m.cursor = 0 ELSE m.cursor \in 0..(n - 1)

\* The user has paged past the end of a full, wrapped view with follow off.
C3_Witness ==
    /\ m.store.start # 0
    /\ ~m.followMode
    /\ m.cursor = Len(safeLogs(m)) - 1
    /\ m.cursor > 0

\* C4: at the end of every Update step, if follow mode is on and the view is
\* not empty, the cursor is on the last record of the view.
C4_FollowKeepsCursorLast ==
    (m.followMode /\ Len(safeLogs(m)) > 0) => m.cursor = Len(safeLogs(m)) - 1

\* Follow mode is on over a view of several records after the fetches are done.
C4_Witness ==
    /\ m.followMode
    /\ Len(safeLogs(m)) > 1
    /\ source = <<>>
    /\ m.cursor = Len(safeLogs(m)) - 1

\* C5: whenever the Update step of one ingestion batch makes at least one
\* Append report a wrap, the match set and the highlight cache are both empty
\* at the end of that same step.
C5_WrapInvalidatesSearch ==
    [][(source' # source
          /\ StoreLen(m.store) + Len(Head(source).events) > m.store.capacity)
         => (m'.matches = <<>> /\ m'.highlighted = <<>>)]_vars

\* A batch has wrapped the ring under a submitted search: the search state is
\* gone and the re-search of the kept query is waiting to be delivered.
C5_Witness ==
    /\ m.store.start # 0
    /\ m.searchQuery # <<>> /\ ~m.searchMode
    /\ m.matches = <<>> /\ m.highlighted = <<>>
    /\ \E i \in 1..Len(pending) : pending[i] = Msg("delayedSearchMsg", m.searchQuery)

\* C6: in every reachable state, every position in the match set is a valid
\* index of the current view, and the record now at that position matches
\* the active pattern (its original message or its stripped display line
\* contains it, the test performSearch applies).
C6_MatchesPointAtMatchingRecords ==
    LET logs == safeLogs(m) IN
    \A k \in 1..Len(m.matches) :
        /\ m.matches[k] \in 0..(Len(logs) - 1)
        /\ \/ MatchString(m.searchRegex, logs[m.matches[k] + 1].OriginalMessage)
           \/ MatchString(m.searchRegex, stripANSI(logs[m.matches[k] + 1].Raw))

\* C8: toggling the display mode leaves the OriginalMessage found at every
\* position of the view unchanged, in the same order, and leaves Len()
\* unchanged, in any store state, also after the ring has wrapped.
C8_ToggleKeepsOriginalMessages ==
    [][m'.config # m.config
         => /\ StoreLen(m'.store) = StoreLen(m.store)
            /\ \A k \in 1..Len(safeLogs(m)) :
                   safeLogs(m')[k].OriginalMessage = safeLogs(m)[k].OriginalMessage]_vars

\* C9: when a submitted search finds at least one match, the current match
\* is the most recent one (currentMatch = len(matches) - 1), the cursor is on
\* that match's position, and follow mode is off.
C9_SubmitSelectsMostRecentMatch ==
    [][(/\ m.searchMode /\ ~m'.searchMode
        /\ m'.lastSearchQuery # <<>> /\ m'.lastSearchQuery # m.lastSearchQuery
        /\ Len(m'.matches) > 0)
         => /\ m'.currentMatch = Len(m'.matches) - 1
            /\ m'.cursor = m'.matches[Len(m'.matches)]
            /\ ~m'.followMode]_vars

\* C10: a search over a view returns, in ascending order, exactly the
\* positions whose display line (Raw with the ANSI markup stripped) contains
\* the pattern without regard to case; a record whose stripped display line
\* does not contain it is never included.
C10_SearchMatchesStrippedDisplayLine ==
    [][(m'.lastSearchQuery # <<>> /\ m'.lastSearchQuery # m.lastSearchQuery)
         => LET logs == safeLogs(m)
                hit == {i \in 0..(Len(logs) - 1) :
                           MatchString(m'.lastSearchQuery, stripANSI(logs[i + 1].Raw))}
            IN  /\ {m'.matches[k] : k \in 1..Len(m'.matches)} = hit
                /\ Len(m'.matches) = Cardinality(hit)
                /\ \A k \in 1..(Len(m'.matches) - 1) : m'.matches[k] < m'.matches[k + 1]]_vars

\* C11: follow mode and a non-empty match set never hold together: in every
\* reachable state, len(matches) > 0 implies followMode = false.
C11_FollowExcludesMatches ==
    Len(m.matches) > 0 => ~m.followMode

C13_NavigationWrapsModulo ==
    LET n == Len(m.matches) IN
    IF n > 0
    THEN /\ m.currentMatch \in 0..(n - 1)
         /\ nextMatch(m).currentMatch = (m.currentMatch + 1) % n
         /\ prevMatch(m).currentMatch = (m.currentMatch + n - 1) % n
         /\ prevMatch(nextMatch(m)).currentMatch = m.currentMatch
         /\ nextMatch(prevMatch(m)).currentMatch = m.currentMatch
         /\ nextMatchTimes(m, n).currentMatch = m.currentMatch
    ELSE \A r \in {nextMatch(m), prevMatch(m)} :
            /\ r.cursor = m.cursor
            /\ r.followMode = m.followMode
            /\ r.currentMatch = m.currentMatch

\* The current match is the last of three: the next call has to wrap.
C13_Witness ==
    /\ Len(m.matches) = 3
    /\ m.currentMatch = 2
    /\ m.cursor = m.matches[3]

\* C14: from the match a fresh search selected, nextMatch moves one step
\* toward older records (currentMatch decreases by one, wrapping) and
\* prevMatch one step toward newer records (currentMatch increases by one,
\* wrapping from the last match to index 0).
C14_NextMovesTowardOlder ==
    (m.searchMode /\ m.searchQuery # <<>> /\ m.searchQuery # m.lastSearchQuery)
      => LET r == UpdateKey(m, "enter").M
             n == Len(r.matches)
         IN  n > 0 => /\ nextMatch(r).currentMatch = (r.currentMatch + n - 1) % n
                      /\ prevMatch(r).currentMatch = (r.currentMatch + 1) % n

C17_ReSearchIsDeferred ==
    [][/\ (source' # source /\ m.searchQuery # <<>>
            /\ StoreLen(m.store) + Len(Head(source).events) > m.store.capacity)
          => /\ m'.matches = <<>>
             /\ m'.searchQuery = m.searchQuery
             /\ pending' = Append(pending, Msg("delayedSearchMsg", m.searchQuery))
       /\ \A i \in 1..Len(pending) :
            (pending' = Without(pending, i) /\ pending[i].query # m.lastSearchQuery)
              => LET logs == safeLogs(m)
                     hit == {p \in 0..(Len(logs) - 1) :
                               \/ MatchString(pending[i].query, logs[p + 1].OriginalMessage)
                               \/ MatchString(pending[i].query, stripANSI(logs[p + 1].Raw))}
                 IN  /\ {m'.matches[k] : k \in 1..Len(m'.matches)} = hit
                     /\ Len(m'.matches) = Cardinality(hit)]_vars

\* A batch has just evicted records under an active pattern that a record of
\* the new view matches: no match is set yet, the re-search is waiting.
C17_Witness ==
    /\ m.store.start # 0
    /\ m.searchQuery # <<>> /\ m.lastSearchQuery = <<>>
    /\ m.matches = <<>>
    /\ pending = <<Msg("delayedSearchMsg", m.searchQuery)>>
    /\ \E p \in 1..Len(safeLogs(m)) :
          MatchString(m.searchQuery, safeLogs(m)[p].OriginalMessage)

\* C18: the scroll commands that move up or to the start (up/k,
\* pageup/ctrl+b, g) always end with followMode = false; the go-to-end
\* commands (G, End) always end with followMode = true and the cursor on the
\* last position of a non-empty view.
C18_ScrollKeysSetFollow ==
    ~m.searchMode
      => /\ \A key \in {"up", "k", "pageup", "ctrl+b", "g"} :
              ~UpdateKey(m, key).M.followMode
         /\ \A key \in {"G", "end"} :
              LET r == UpdateKey(m, key).M IN
              /\ r.followMode
              /\ Len(safeLogs(r)) > 0 => r.cursor = Len(safeLogs(r)) - 1

\* Go-to-end was used over search results: follow is on, the cursor is last.
C18_Witness ==
    /\ ~m.searchMode /\ m.followMode
    /\ Len(m.matches) > 0
    /\ Len(safeLogs(m)) > 1
    /\ m.cursor = Len(safeLogs(m)) - 1

\* C19: with follow mode off, scrolling down (down/j or pagedown) until the
\* cursor reaches the last position of the view turns follow mode back on.
C19_ScrollToEndResumesFollow ==
    (~m.searchMode /\ ~m.followMode /\ m.cursor < Len(safeLogs(m)) - 1)
      => \A key \in {"down", "j", "pagedown", "ctrl+f"} :
           LET r == UpdateKey(m, key).M IN
           r.cursor = Len(safeLogs(r)) - 1 => r.followMode

\* C20: a display-mode toggle always ends with an empty match set, an empty
\* highlight cache, currentMatch reset to 0 and no compiled pattern,
\* whatever the search state was before.
C20_ToggleClearsSearch ==
    LET r == UpdateKey(m, "J").M IN
    /\ r.config # m.config
    /\ r.matches = <<>>
    /\ r.highlighted = <<>>
    /\ r.currentMatch = 0
    /\ r.searchRegex = noRegexp

\* The format was toggled after a search had been submitted: the query is
\* still there, the search state is gone.
C20_Witness ==
    /\ ~m.config.ParseAccessLogs /\ m.needsLazyReprocess
    /\ ~m.searchMode /\ m.searchQuery # <<>>
    /\ m.matches = <<>> /\ m.highlighted = <<>>
    /\ m.currentMatch = 0 /\ m.searchRegex = noRegexp
    /\ Len(safeLogs(m)) > 0

\* C26: whatever came before (earlier searches, search input cancelled with
\* Esc, an empty query submitted, records ingested without eviction),
\* submitting a non-empty pattern with Enter leaves the match set equal to
\* the set of all positions of the view that match the pattern: no submit is
\* skipped in a way that leaves matching records out.
C26_SubmitIsNeverSkipped ==
    (m.searchMode /\ m.searchQuery # <<>>)
      => LET logs == safeLogs(m)
             r == UpdateKey(m, "enter").M
             hit == {p \in 0..(Len(logs) - 1) :
                       \/ MatchString(m.searchQuery, logs[p + 1].OriginalMessage)
                       \/ MatchString(m.searchQuery, stripANSI(logs[p + 1].Raw))}
         IN  /\ {r.matches[k] : k \in 1..Len(r.matches)} = hit
             /\ Len(r.matches) = Cardinality(hit)

\* C27: in every reachable state the highlight cache has an entry for
\* exactly the positions of the match set; in particular it is empty
\* whenever the match set is empty.
C27_HighlightsCoverMatches ==
    DOMAIN m.highlighted = {m.matches[k] : k \in 1..Len(m.matches)}

\* C28: a deferred re-search that arrives after the user has abandoned the
\* query it was scheduled for (has opened the search input for a new query,
\* or cancelled it) is dropped: processing it does not overwrite searchQuery,
\* does not create a match set and does not move the cursor.
C28_StaleReSearchDropped ==
    \A i \in 1..Len(pending) :
        (pending[i].type = "delayedSearchMsg" /\ m.searchQuery # pending[i].query)
          => LET r == UpdateDelayedSearch(m, pending[i].query).M IN
             /\ r.searchQuery = m.searchQuery
             /\ r.matches = m.matches
             /\ r.cursor = m.cursor

\* C29: after the user clears the search with Esc in normal mode, the match
\* set stays empty and ingestion, evicting or not, schedules no re-search
\* (a re-search is scheduled on eviction only when a search was active).
C29_NoReSearchAfterClear ==
    (/\ ~m.searchMode /\ source # <<>>
     /\ \A i \in 1..Len(pending) : pending[i].type # "delayedSearchMsg")
      => LET cleared == UpdateKey(m, "esc").M
             r == UpdateLogs(cleared, logsOf(Head(source), cleared.config))
         IN  /\ r.M.matches = <<>>
             /\ \A k \in 1..Len(r.cmd) : r.cmd[k].type # "delayedSearchMsg"

\* C30: after an eviction under an active search pattern, provided no
\* further eviction and no user search action intervenes, the deferred
\* re-search is eventually processed and the match set then equals the
\* positions of the post-eviction view that match the same pattern.
C30_ReSearchEventuallyRuns ==
    \A q \in {<<c>> : c \in TypedChars} :
        (/\ pending = <<Msg("delayedSearchMsg", q)>>
         /\ ~m.searchMode /\ m.searchQuery = q /\ m.lastSearchQuery = <<>>)
          ~> \/ m.searchMode
             \/ Len(pending) > 1
             \/ LET logs == safeLogs(m)
                    hit == {p \in 0..(Len(logs) - 1) :
                              \/ MatchString(q, logs[p + 1].OriginalMessage)
                              \/ MatchString(q, stripANSI(logs[p + 1].Raw))}
                IN  /\ pending = <<>>
                    /\ m.searchQuery = q /\ m.lastSearchQuery = q
                    /\ {m.matches[k] : k \in 1..Len(m.matches)} = hit
                    /\ Len(m.matches) = Cardinality(hit)

(***************************************************************************)
(* Fetches, timers and the initial load                                    *)
(***************************************************************************)
\* C21: when the initial load yields no record, the time window is widened
\* through at most three escalating steps (24 hours, 7 days, 30 days, never
\* shrinking), and once the steps are exhausted with still no record the
\* session gives up and reports "no logs found" (lastError set).
C21_WideningThenNoLogsFound ==
    [][/\ m'.currentTimeRange >= m.currentTimeRange
       /\ m'.currentTimeRange \in {LogTimeRange, 24, 24 * 7, 24 * 30}
       /\ (m.initialLoad /\ ~m'.initialLoad /\ Len(safeLogs(m')) = 0)
            => (m'.searchAttempt >= maxSearchAttempt /\ m'.lastError = noLogsFound)]_vars

\* C22: processing a fetch failure message changes only loading and
\* lastError: the stored records, Len(), the cursor, followMode, the match
\* set and the highlight cache are what they were before the failure.
C22_FailureKeepsRecords ==
    [][\A i \in 1..Len(pending) :
          (pending[i].type = "error" /\ pending' = Without(pending, i))
            => /\ m'.loading = FALSE /\ m'.lastError = pending[i].query
               /\ m'.store = m.store /\ StoreLen(m'.store) = StoreLen(m.store)
               /\ m'.cursor = m.cursor /\ m'.followMode = m.followMode
               /\ m'.matches = m.matches /\ m'.highlighted = m.highlighted
               /\ [m' EXCEPT !.loading = m.loading, !.lastError = m.lastError] = m]_vars

\* A failure has been processed over a view with a match set: the records
\* and the match are still there, the error is shown.
C22_Witness ==
    /\ m.lastError = "timeout" /\ ~m.loading
    /\ Len(safeLogs(m)) > 0
    /\ Len(m.matches) > 0 /\ DOMAIN m.highlighted # {}
    /\ m.cursor = m.matches[m.currentMatch + 1]

\* C23: at most one fetch request to the remote source is in flight at any
\* time: no fetch is issued while a previous one has not delivered its
\* result.
C23_SingleFetchInFlight ==
    Cardinality({i \in 1..Len(pending) :
                    pending[i].type \in {"fetchLogs", "logsWithTokenMsg", "error"}}) <= 1

(***************************************************************************)
(* Commands and the single writer                                          *)
(***************************************************************************)
\* A command whose function is running: it has not produced its message yet.
IsTask(c) == c.type \in {"fetchLogs", "expandSearchWindow"}

\* The function of a command returns: its entry in pending becomes the
\* message it produced; nothing is delivered to Update in this step.
TaskReturns ==
    /\ Len(pending') = Len(pending)
    /\ \E i \in 1..Len(pending) :
         /\ IsTask(pending[i]) /\ ~IsTask(pending'[i])
         /\ \A j \in 1..Len(pending) : j # i => pending'[j] = pending[j]

\* C31: asynchronous tasks (fetches, window widening, timers) never write
\* the model themselves: a step in which a command's function runs and
\* returns its message leaves every field of the model as it was; the model
\* changes only in the handling of a message in Update.
C31_TasksNeverWriteModel == [][TaskReturns => m' = m]_vars

\* C32: during one initial load at most three follow-up page fetches are
\* sent (four page fetches with the first), whatever poll ticks are
\* processed while the initial load is in progress: the requests that carry
\* a continuation token never number more than maxFetchCount.
C32_AtMostThreeFollowUpPages == Len(history) <= maxFetchCount

\* A request to the remote source has been issued and has not returned.
FetchIssued == \E i \in 1..Len(pending) : pending[i].type = "fetchLogs"

PollTimers == {i \in 1..Len(pending) : pending[i].type = "tickMsg"}

\* C36: at most one poll timer (pending tickMsg) exists at any time,
\* whatever F, G and End key presses and tick deliveries occur, and whenever
\* followMode is true at least one poll timer is pending.
C36_OnePollTimer ==
    /\ Cardinality(PollTimers) <= 1
    /\ m.followMode => PollTimers # {}

\* Requests still running, results not yet handled by Update, and window
\* widenings on their way to the next request.
FetchesInFlight ==
    {i \in 1..Len(pending) :
        pending[i].type \in {"fetchLogs", "logsWithTokenMsg", "error",
                             "expandSearchWindow", "noLogsFoundMsg"}}

\* C38: once the result (success or failure) of every issued fetch has been
\* processed, the loading flag is false, in whatever order the
\* loadingMsg(true) and the result of one fetchLogs batch are delivered.
C38_LoadingEndsWithResults == FetchesInFlight = {} => ~m.loading

\* C35: clearSearchState empties the match set and the highlight cache and
\* resets currentMatch to 0, and leaves searchQuery, searchMode, the cursor
\* and followMode as they were.
C35_ClearSearchStateFrame ==
    LET r == clearSearchState(m) IN
    /\ r.matches = <<>>
    /\ r.highlighted = <<>>
    /\ r.currentMatch = 0
    /\ r.searchQuery = m.searchQuery
    /\ r.searchMode = m.searchMode
    /\ r.cursor = m.cursor
    /\ r.followMode = m.followMode

\* Esc in normal mode has cleared the state of a submitted search: the
\* query is kept, matches and highlights are gone, the cursor stays on the
\* record the search had selected.
C35_Witness ==
    /\ ~m.searchMode /\ m.searchQuery # <<>>
    /\ m.matches = <<>> /\ m.highlighted = <<>> /\ m.currentMatch = 0
    /\ m.lastSearchQuery = <<>> /\ m.searchRegex = noRegexp
    /\ m.config = NewUIConfig /\ ~m.needsLazyReprocess
    /\ pending = <<>>
    /\ Len(safeLogs(m)) > 1 /\ m.cursor > 0 /\ ~m.followMode

\* C37: while search input mode is active, pressing a single printable
\* character other than J and F appends that character to the search query
\* and does nothing else; no such character quits the session.
C37_TypedCharsOnlyExtendQuery ==
    m.searchMode =>
        \A key \in OneCharKeys \ {"J", "F"} :
            UpdateKey(m, key) = Done([m EXCEPT !.searchQuery = Append(@, key)])

(***************************************************************************)
(* Rendering                                                               *)
(***************************************************************************)
\* C34: the visible range computed for rendering satisfies
\* 0 <= start <= end <= len(view) for every cursor, view length and display
\* height (the rows m.height - 6 left for records), and for a display height
\* of at least 1 it contains the cursor and has size min(height, len(view)).
C34_VisibleRange ==
    (m.height > 0 /\ Len(safeLogs(m)) > 0) =>
        LET n == Len(safeLogs(m))
            rows == m.height - viewMargin
            r == viewport(m)
        IN  /\ 0 <= r.start /\ r.start <= r.end /\ r.end <= n
            /\ rows >= 1 => /\ r.start <= m.cursor /\ m.cursor < r.end
                            /\ r.end - r.start = Min(rows, n)

(***************************************************************************)
(* The log group selector                                                  *)
(***************************************************************************)
\* C39: after any sequence of key presses the filtered list is exactly the
\* log groups, in their original order, whose name contains the filter
\* query case-insensitively; the cursor is a valid index into the filtered
\* list whenever that list is non-empty; and Enter selects a group only
\* when the filtered list is non-empty.
C39_FilteredListAndCursor ==
    LET matching(group) == MatchString(m.searchQuery, group)
        r == UpdateSelectorKey(m, "enter")
    IN  /\ m.filteredGroups = SelectSeq(m.logGroups, matching)
        /\ Len(m.filteredGroups) > 0 =>
              (0 <= m.cursor /\ m.cursor < Len(m.filteredGroups))
        /\ IF Len(m.filteredGroups) > 0
           THEN r.quit /\ r.M.selected = m.filteredGroups[m.cursor + 1]
           ELSE ~r.quit /\ r.M = m
        /\ m.selected # <<>> => \E i \in 1..Len(m.filteredGroups) :
                                    m.selected = m.filteredGroups[i]

\* A filter typed in small letters kept a group written in capitals and
\* dropped another; the cursor was moved down and Enter selected the group
\* under it.
C39_Witness ==
    /\ ~running
    /\ m.searchQuery = <<"a">>
    /\ m.filteredGroups = << <<"/", "a", "e">>, <<"/", "A", "k">> >>
    /\ m.cursor = 1
    /\ m.selected = <<"/", "A", "k">>

\* C40: typing a letter, a digit, '-', '_', '/' or '.' appends that
\* character to the filter query and narrows the list; a character of a
\* log group name never quits the selector, moves the cursor or starts a
\* region change instead.
C40_NameCharactersFilter ==
    running =>
        \A char \in Letters \cup {"0", "-", "_", "/", "."} :
            LET r == UpdateSelectorKey(m, char)
                q == Append(m.searchQuery, char)
                matching(group) == MatchString(q, group)
            IN  /\ ~r.quit
                /\ r.M.searchQuery = q
                /\ r.M.filteredGroups = SelectSeq(m.logGroups, matching)
                /\ ~r.M.quit /\ ~r.M.changeRegion

====
